---- MODULE Spec2Model ----
(***************************************************************************)
(* FortiGate -> Cisco FTD configuration converter.                         *)
(*                                                                         *)
(* Two converters live in the repository, both called                      *)
(* FortiGateToFTDConverter:                                                *)
(*   src/main.py                                   six sub-translations    *)
(*                                                 over the list-of-       *)
(*                                                 records form            *)
(*   src/FortiGateToFTDTool/fortigate_converter.py address objects only,   *)
(*                                                 named-map form          *)
(* A behaviour of this module is one run of one of them (variable tool),   *)
(* or one call of _netmask_to_cidr on a netmask string.                    *)
(*                                                                         *)
(* Python values are modelled as follows.                                  *)
(*   dict          a function whose DOMAIN is the set of keys present      *)
(*   list          a sequence                                              *)
(*   str that the code inspects or formats (addresses, netmasks, actions,  *)
(*                 address values)   a sequence of one-character strings   *)
(*   str that the code only compares or copies (names, comments, status    *)
(*                 keywords)         a TLA+ string                         *)
(*   a raised exception   pc = the exception's name                        *)
(***************************************************************************)
EXTENDS Integers, Sequences, FiniteSets, TLC

VARIABLES
    tool,                 \* which program this behaviour runs
    pc,                   \* position inside convert_all / the call
    fg_config,            \* self.fg_config, the parsed source tree
    ftd_config,           \* main.py: self.ftd_config
    ftd_network_objects,  \* fortigate_converter.py: self.ftd_network_objects
    warnings,             \* fortigate_converter.py: "Warning:" lines printed so far
    netmask,              \* argument of a direct _netmask_to_cidr call
    cidr,                 \* its return value
    pending               \* main.py run in any order: the sub-translations yet to run

vars == <<tool, pc, fg_config, ftd_config, ftd_network_objects, warnings, netmask, cidr,
          pending>>

(***************************************************************************)
(* Bounds of the model.                                                    *)
(***************************************************************************)
\* longest sequence of records drawn for the section under study
MaxRecs == 2

\* the same, for the runs that take the six sub-translations in any order
MaxOrderRecs == 1

(***************************************************************************)
(* Python primitives.                                                      *)
(***************************************************************************)
\* dict.get(key, default)
Get(d, k, default) == IF k \in DOMAIN d THEN d[k] ELSE default

\* the dict d restricted to the keys K (used to draw records with optional keys)
Restrict(d, K) == [k \in K |-> d[k]]

\* [{"name": x} for x in xs]
WrapNames(xs) == [i \in 1..Len(xs) |-> [name |-> xs[i]]]

UpperAlpha == <<"A","B","C","D","E","F","G","H","I","J","K","L","M",
                "N","O","P","Q","R","S","T","U","V","W","X","Y","Z">>
LowerAlpha == <<"a","b","c","d","e","f","g","h","i","j","k","l","m",
                "n","o","p","q","r","s","t","u","v","w","x","y","z">>

\* str.lower() on one character
LowerChar(c) ==
    IF \E i \in 1..Len(UpperAlpha) : UpperAlpha[i] = c
    THEN LowerAlpha[CHOOSE i \in 1..Len(UpperAlpha) : UpperAlpha[i] = c]
    ELSE c

\* str.lower()
Lower(s) == [i \in 1..Len(s) |-> LowerChar(s[i])]

\* str.upper() on one character
UpperChar(c) ==
    IF \E i \in 1..Len(LowerAlpha) : LowerAlpha[i] = c
    THEN UpperAlpha[CHOOSE i \in 1..Len(LowerAlpha) : LowerAlpha[i] = c]
    ELSE c

\* str.upper()
Upper(s) == [i \in 1..Len(s) |-> UpperChar(s[i])]

DigitChars == <<"0","1","2","3","4","5","6","7","8","9">>

\* str(n) for an int n >= 0, as it appears inside an f-string
RECURSIVE StrOfNat(_)
StrOfNat(n) ==
    IF n < 10 THEN <<DigitChars[n + 1]>>
    ELSE StrOfNat(n \div 10) \o <<DigitChars[(n % 10) + 1]>>

\* the exception a failed subscript d[k] raises
KeyError == <<"KeyError">>

\* the empty dict {}, in a field that otherwise holds an interface name
EmptyDict == "{}"

(***************************************************************************)
(* String literals the programs use, spelled as character sequences.       *)
(***************************************************************************)
s_accept == <<"a","c","c","e","p","t">>
s_allow  == <<"a","l","l","o","w">>
s_deny   == <<"d","e","n","y">>
s_reject == <<"r","e","j","e","c","t">>
s_TCP    == <<"T","C","P">>
s_empty  == <<>>
s_dash   == <<"-">>
s_slash  == <<"/">>

(***************************************************************************)
(* src/main.py : FortiGateToFTDConverter                                   *)
(***************************************************************************)
\* __init__: the six empty output lists
main_init_ftd_config ==
    [network_objects |-> <<>>, network_groups |-> <<>>, port_objects |-> <<>>,
     port_groups |-> <<>>, access_policies |-> <<>>, nat_policies |-> <<>>]

\* self.fg_config.get('firewall', {})
main_firewall(cfg) == Get(cfg, "firewall", <<>>)

\* self.fg_config.get('firewall', {}).get('service', {})
main_service(cfg) == Get(main_firewall(cfg), "service", <<>>)

main_determine_address_type(addr) ==
    IF "subnet" \in DOMAIN addr THEN "NETWORK"
    ELSE IF "start-ip" \in DOMAIN addr /\ "end-ip" \in DOMAIN addr THEN "RANGE"
    ELSE IF "fqdn" \in DOMAIN addr THEN "FQDN"
    ELSE "HOST"

\* addr['end-ip'] raises KeyError when the key is missing
main_extract_address_value(addr) ==
    IF "subnet" \in DOMAIN addr THEN addr["subnet"]
    ELSE IF "start-ip" \in DOMAIN addr
         THEN IF "end-ip" \in DOMAIN addr
              THEN addr["start-ip"] \o s_dash \o addr["end-ip"]
              ELSE KeyError
    ELSE IF "fqdn" \in DOMAIN addr THEN addr["fqdn"]
    ELSE Get(addr, "ip", s_empty)

\* the dict built for one address record
main_network_object(addr) ==
    [name        |-> Get(addr, "name", ""),
     description |-> Get(addr, "comment", ""),
     type        |-> "networkobject",
     subType     |-> main_determine_address_type(addr),
     value       |-> main_extract_address_value(addr)]

\* the list convert_address_objects returns when no record raises
convert_address_objects(cfg) ==
    LET addresses == Get(main_firewall(cfg), "address", <<>>)
    IN  [i \in 1..Len(addresses) |-> main_network_object(addresses[i])]

\* convert_address_objects is left by an exception: some record's value raises
convert_address_objects_raises(cfg) ==
    LET addresses == Get(main_firewall(cfg), "address", <<>>)
    IN  \E i \in 1..Len(addresses) : main_extract_address_value(addresses[i]) = KeyError

\* a faulty variant: the members wrapped last to first
main_group_object_reversed(grp, type) ==
    LET member == Get(grp, "member", <<>>)
    IN  [name        |-> Get(grp, "name", ""),
         description |-> Get(grp, "comment", ""),
         type        |-> type,
         objects     |-> [i \in 1..Len(member) |-> [name |-> member[Len(member) + 1 - i]]]]

\* the dict built for one group record (address groups and service groups alike)
main_group_object(grp, type) ==
    [name        |-> Get(grp, "name", ""),
     description |-> Get(grp, "comment", ""),
     type        |-> type,
     objects     |-> WrapNames(Get(grp, "member", <<>>))]

convert_address_groups(cfg) ==
    LET groups == Get(main_firewall(cfg), "addrgrp", <<>>)
    IN  [i \in 1..Len(groups) |-> main_group_object(groups[i], "networkobjectgroup")]

extract_port_value(svc) ==
    IF "tcp-portrange" \in DOMAIN svc THEN svc["tcp-portrange"]
    ELSE IF "udp-portrange" \in DOMAIN svc THEN svc["udp-portrange"]
    ELSE IF "sctp-portrange" \in DOMAIN svc THEN svc["sctp-portrange"]
    ELSE "any"

main_port_object(svc) ==
    [name        |-> Get(svc, "name", ""),
     description |-> Get(svc, "comment", ""),
     type        |-> "portobject",
     protocol    |-> Upper(Get(svc, "protocol", s_TCP)),
     port        |-> extract_port_value(svc)]

convert_service_objects(cfg) ==
    LET services == Get(main_service(cfg), "custom", <<>>)
    IN  [i \in 1..Len(services) |-> main_port_object(services[i])]

convert_service_groups(cfg) ==
    LET groups == Get(main_service(cfg), "group", <<>>)
    IN  [i \in 1..Len(groups) |-> main_group_object(groups[i], "portobjectgroup")]

action_map ==
    (s_accept :> "ALLOW") @@ (s_allow :> "ALLOW") @@
    (s_deny :> "BLOCK") @@ (s_reject :> "BLOCK")

\* a faulty variant: the lookup without lower()
map_action_case_sensitive(fg_action) == Get(action_map, fg_action, "BLOCK")

map_action(fg_action) == Get(action_map, Lower(fg_action), "BLOCK")

\* f"Rule_{policy.get('policyid', '')}" and f"NAT_{policy.get('policyid', '')}"
main_policyid_text(policy) ==
    IF "policyid" \in DOMAIN policy THEN ToString(policy["policyid"]) ELSE ""

\* a faulty variant: enabled unless status is "disable"
policy_enabled_unless_disable(policy) == Get(policy, "status", "enable") # "disable"

policy_enabled(policy) == Get(policy, "status", "enable") = "enable"

policy_logBegin(policy) == Get(policy, "logtraffic", "disable") # "disable"

\* a faulty variant: logEnd defaults to logging when logtraffic is absent
policy_logEnd_default_on(policy) == Get(policy, "logtraffic", "all") # "disable"

policy_logEnd(policy) == Get(policy, "logtraffic", "disable") # "disable"

main_access_rule(policy) ==
    [name                |-> Get(policy, "name", "Rule_" \o main_policyid_text(policy)),
     ruleAction          |-> map_action(Get(policy, "action", s_deny)),
     enabled             |-> policy_enabled(policy),
     sourceZones         |-> WrapNames(Get(policy, "srcintf", <<>>)),
     destinationZones    |-> WrapNames(Get(policy, "dstintf", <<>>)),
     sourceNetworks      |-> WrapNames(Get(policy, "srcaddr", <<>>)),
     destinationNetworks |-> WrapNames(Get(policy, "dstaddr", <<>>)),
     sourcePorts         |-> WrapNames(Get(policy, "service", <<>>)),
     logBegin            |-> policy_logBegin(policy),
     logEnd              |-> policy_logEnd(policy)]

convert_firewall_policies(cfg) ==
    LET policies == Get(main_firewall(cfg), "policy", <<>>)
    IN  [i \in 1..Len(policies) |-> main_access_rule(policies[i])]

\* a faulty variant: the last interface of the list instead of the first
main_last_interface(policy, k) ==
    IF k \in DOMAIN policy /\ Len(policy[k]) > 0 THEN policy[k][Len(policy[k])] ELSE EmptyDict

\* policy.get(k, [{}])[0] if policy.get(k) else {}
main_first_interface(policy, k) ==
    IF k \in DOMAIN policy /\ Len(policy[k]) > 0 THEN policy[k][1] ELSE EmptyDict

main_nat_rule(policy) ==
    [name                 |-> "NAT_" \o main_policyid_text(policy),
     natType              |-> IF Get(policy, "ippool", "") = "enable"
                              THEN "DYNAMIC" ELSE "STATIC",
     sourceInterface      |-> main_first_interface(policy, "srcintf"),
     destinationInterface |-> main_first_interface(policy, "dstintf"),
     originalSource       |-> WrapNames(Get(policy, "srcaddr", <<>>)),
     originalDestination  |-> WrapNames(Get(policy, "dstaddr", <<>>)),
     translatedSource     |-> Get(policy, "poolname", "interface")]

\* a faulty variant: NAT unless nat is "disable"
nat_enabled_unless_disable(policy) == Get(policy, "nat", "disable") # "disable"

\* if policy.get('nat') == 'enable'
nat_enabled(policy) == Get(policy, "nat", "") = "enable"

\* the policies, in order, that pass the nat test
RECURSIVE SelectNat(_)
SelectNat(policies) ==
    IF policies = <<>> THEN <<>>
    ELSE (IF nat_enabled(Head(policies)) THEN <<Head(policies)>> ELSE <<>>)
         \o SelectNat(Tail(policies))

convert_nat_policies(cfg) ==
    LET policies == Get(main_firewall(cfg), "policy", <<>>)
        kept     == SelectNat(policies)
    IN  [i \in 1..Len(kept) |-> main_nat_rule(kept[i])]


(***************************************************************************)
(* src/FortiGateToFTDTool/fortigate_converter.py : _netmask_to_cidr        *)
(***************************************************************************)
\* str.split(sep): the pieces of s between the separators, empty pieces kept
RECURSIVE SplitFrom(_, _, _)
SplitFrom(s, sep, piece) ==
    IF s = <<>> THEN <<piece>>
    ELSE IF Head(s) = sep THEN <<piece>> \o SplitFrom(Tail(s), sep, <<>>)
    ELSE SplitFrom(Tail(s), sep, Append(piece, Head(s)))

Split(s, sep) == SplitFrom(s, sep, <<>>)

IsDigit(c) == \E i \in 1..Len(DigitChars) : DigitChars[i] = c

DigitValue(c) == (CHOOSE i \in 1..Len(DigitChars) : DigitChars[i] = c) - 1

\* the digits of x after an optional sign
Unsigned(x) == IF x # <<>> /\ Head(x) \in {"+", "-"} THEN Tail(x) ELSE x

\* int(x) succeeds: an optional sign and at least one digit, nothing else
\* (the strings drawn hold no blanks and no underscores)
IntParses(x) ==
    /\ Unsigned(x) # <<>>
    /\ \A i \in 1..Len(Unsigned(x)) : IsDigit(Unsigned(x)[i])

RECURSIVE DigitsValue(_)
DigitsValue(d) ==
    IF d = <<>> THEN 0
    ELSE 10 * DigitsValue(SubSeq(d, 1, Len(d) - 1)) + DigitValue(d[Len(d)])

\* int(x), for an x that parses
IntOf(x) ==
    IF x # <<>> /\ Head(x) = "-" THEN 0 - DigitsValue(Unsigned(x))
    ELSE DigitsValue(Unsigned(x))

\* the binary digits of n >= 0, most significant first ("0" for 0)
RECURSIVE BinDigits(_)
BinDigits(n) ==
    IF n < 2 THEN <<DigitChars[n + 1]>>
    ELSE BinDigits(n \div 2) \o <<DigitChars[(n % 2) + 1]>>

\* bin(n): "0b..." or "-0b..."
Bin(n) ==
    IF n < 0 THEN <<"-", "0", "b">> \o BinDigits(0 - n)
    ELSE <<"0", "b">> \o BinDigits(n)

\* s[2:]
DropTwo(s) == SubSeq(s, 3, Len(s))

\* str.zfill(width): zeros on the left, after a leading sign if there is one
Zfill(s, width) ==
    LET pad == [i \in 1..(width - Len(s)) |-> "0"]
    IN  IF Len(s) >= width THEN s
        ELSE IF s # <<>> /\ Head(s) \in {"+", "-"} THEN <<Head(s)>> \o pad \o Tail(s)
        ELSE pad \o s

\* ''.join(pieces)
RECURSIVE Join(_)
Join(pieces) == IF pieces = <<>> THEN <<>> ELSE Head(pieces) \o Join(Tail(pieces))

\* str.count(c) for a single character c
Count(s, c) == Cardinality({i \in 1..Len(s) : s[i] = c})

\* width of one octet's field in binary_str
OctetWidth == 8

\* the value returned from the except branch
FallbackCidr == 32

\* the try block raises: int() rejects some piece of netmask.split('.')
netmask_to_cidr_warns(mask) ==
    \E i \in 1..Len(Split(mask, ".")) : ~IntParses(Split(mask, ".")[i])

\* ''.join([bin(int(x))[2:].zfill(8) for x in netmask.split('.')])
netmask_binary_str(mask) ==
    LET parts == Split(mask, ".")
    IN  Join([i \in 1..Len(parts) |-> Zfill(DropTwo(Bin(IntOf(parts[i]))), OctetWidth)])

netmask_to_cidr(mask) ==
    IF netmask_to_cidr_warns(mask) THEN FallbackCidr
    ELSE Count(netmask_binary_str(mask), "1")

(***************************************************************************)
(* src/FortiGateToFTDTool/fortigate_converter.py : FortiGateToFTDConverter *)
(***************************************************************************)
s_host_mask == <<"2","5","5",".","2","5","5",".","2","5","5",".","2","5","5">>

\* a faulty variant: every subnet is a NETWORK, the all-ones mask included
fc_determine_address_type_always_network(properties) ==
    IF Get(properties, "type", "") = "iprange" THEN "RANGE"
    ELSE IF "subnet" \in DOMAIN properties THEN "NETWORK"
    ELSE "HOST"

fc_determine_address_type(properties) ==
    IF Get(properties, "type", "") = "iprange" THEN "RANGE"
    ELSE IF "subnet" \in DOMAIN properties
         THEN LET subnet_list == properties["subnet"]
              IN  IF Len(subnet_list) >= 2
                  THEN IF subnet_list[2] = s_host_mask THEN "HOST" ELSE "NETWORK"
                  ELSE "NETWORK"
    ELSE "HOST"

fc_extract_address_value(properties) ==
    IF Get(properties, "type", "") = "iprange"
    THEN Get(properties, "start-ip", s_empty) \o s_dash \o Get(properties, "end-ip", s_empty)
    ELSE IF "subnet" \in DOMAIN properties
         THEN LET subnet_list == properties["subnet"]
              IN  IF Len(subnet_list) >= 2
                  THEN subnet_list[1] \o s_slash \o StrOfNat(netmask_to_cidr(subnet_list[2]))
                  ELSE IF subnet_list # <<>> THEN subnet_list[1] ELSE s_empty
    ELSE s_empty

\* the "Warning:" lines printed while one record's value is extracted
fc_extract_warnings(properties) ==
    IF Get(properties, "type", "") = "iprange" THEN 0
    ELSE IF "subnet" \in DOMAIN properties
         THEN IF Len(properties["subnet"]) >= 2
                 /\ netmask_to_cidr_warns(properties["subnet"][2])
              THEN 1 ELSE 0
    ELSE 1

\* list(addr_dict.keys())[0]: the key of a single-entry mapping
fc_object_name(addr_dict) == CHOOSE k \in DOMAIN addr_dict : TRUE

fc_network_object(addr_dict) ==
    LET object_name == fc_object_name(addr_dict)
        properties  == addr_dict[object_name]
    IN  [name        |-> object_name,
         description |-> Get(properties, "comment", ""),
         type        |-> "networkobject",
         subType     |-> fc_determine_address_type(properties),
         value       |-> fc_extract_address_value(properties)]

\* `if not addresses: return []` is the empty comprehension
fc_convert_address_objects(cfg) ==
    LET addresses == Get(cfg, "firewall_address", <<>>)
    IN  [i \in 1..Len(addresses) |-> fc_network_object(addresses[i])]

RECURSIVE SumSeq(_)
SumSeq(ns) == IF ns = <<>> THEN 0 ELSE Head(ns) + SumSeq(Tail(ns))

\* the "Warning:" lines convert_address_objects prints
fc_convert_warnings(cfg) ==
    LET addresses == Get(cfg, "firewall_address", <<>>)
    IN  IF Len(addresses) = 0 THEN 1
        ELSE SumSeq([i \in 1..Len(addresses) |->
                        fc_extract_warnings(addresses[i][fc_object_name(addresses[i])])])


(***************************************************************************)
(* The inputs drawn.                                                       *)
(***************************************************************************)
a_192_168_1_10 == <<"1","9","2",".","1","6","8",".","1",".","1","0">>
a_192_168_1_20 == <<"1","9","2",".","1","6","8",".","1",".","2","0">>
a_10_0_0_0 == <<"1","0",".","0",".","0",".","0">>
a_10_0_0_4 == <<"1","0",".","0",".","0",".","4">>
a_fqdn == <<"a",".","i","o">>
m_255_255_255_255 == <<"2","5","5",".","2","5","5",".","2","5","5",".","2","5","5">>
m_255_255_255_252 == <<"2","5","5",".","2","5","5",".","2","5","5",".","2","5","2">>
m_255_255_255_0 == <<"2","5","5",".","2","5","5",".","2","5","5",".","0">>
m_255_255_0_0 == <<"2","5","5",".","2","5","5",".","0",".","0">>
m_0_0_0_0 == <<"0",".","0",".","0",".","0">>
m_255_255_255_abc == <<"2","5","5",".","2","5","5",".","2","5","5",".","a","b","c">>
m_256_0_0_0 == <<"2","5","6",".","0",".","0",".","0">>
m_neg1_0_0_0 == <<"-","1",".","0",".","0",".","0">>
m_511x4 == <<"5","1","1",".","5","1","1",".","5","1","1",".","5","1","1">>
m_255__0_0 == <<"2","5","5",".",".","0",".","0">>
act_ACCEPT == <<"A","C","C","E","P","T">>
act_Allow == <<"A","l","l","o","w">>
act_Reject == <<"R","e","j","e","c","t">>
act_foo == <<"f","o","o">>
proto_tcp == <<"t","c","p">>
proto_Udp == <<"U","d","p">>
s_space == <<" ">>

\* netmask strings: well formed, malformed, and with octets outside 0..255
Netmasks ==
    {m_255_255_255_255, m_255_255_255_252, m_255_255_255_0, m_255_255_0_0, m_0_0_0_0,
     m_255_255_255_abc, m_255__0_0, m_256_0_0_0, m_neg1_0_0_0, m_511x4}

\* every netmask string of four octets drawn from a few values, beside the above
OctetTexts == {<<"0">>, <<"2","5","5">>, <<"1","2","8">>, <<"2","5","6">>, <<"x">>}

FourOctetNetmasks ==
    {o[1] \o <<".">> \o o[2] \o <<".">> \o o[3] \o <<".">> \o o[4] : o \in [1..4 -> OctetTexts]}

\* --- list-of-records form (main.py) ---
MainSubnets == {a_192_168_1_10 \o s_space \o m_255_255_255_255,
                a_10_0_0_0 \o s_space \o m_255_255_0_0}

AddrTypeKeys == {"subnet", "start-ip", "end-ip", "fqdn", "ip"}

MainAddrFull(subnet) ==
    ("name" :> "web") @@ ("comment" :> "c") @@ ("subnet" :> subnet) @@
    ("start-ip" :> a_192_168_1_10) @@ ("end-ip" :> a_192_168_1_20) @@
    ("fqdn" :> a_fqdn) @@ ("ip" :> a_10_0_0_4)

MainHostSubnet == a_192_168_1_10 \o s_space \o m_255_255_255_255

MainAddrRecords ==
    {Restrict(MainAddrFull(MainHostSubnet), K \cup {"name", "comment"}) :
        K \in SUBSET AddrTypeKeys}
    \cup {Restrict(MainAddrFull(sub), K) :
            sub \in MainSubnets \ {MainHostSubnet}, K \in {{"name", "subnet"}, {"subnet", "ip"}}}
    \cup {Restrict(MainAddrFull(MainHostSubnet), K) : K \in {{}, {"ip"}, {"name", "fqdn"}}}

GroupFull(member) ==
    ("name" :> "grp") @@ ("comment" :> "g") @@ ("member" :> member)

GroupRecords ==
    {GroupFull(m) : m \in {<<>>, <<"A">>, <<"A", "B", "C">>, <<"B", "A", "A">>}}
    \cup {Restrict(GroupFull(<<"A">>), K) : K \in {{}, {"name"}, {"member"}}}

ServiceFull(protocol) ==
    ("name" :> "svc") @@ ("comment" :> "s") @@ ("protocol" :> protocol) @@
    ("tcp-portrange" :> "80") @@ ("udp-portrange" :> "53") @@ ("sctp-portrange" :> "9")

ServiceRecords ==
    {Restrict(ServiceFull(p), K \cup {"name", "comment", "protocol"}) :
        p \in {proto_tcp, proto_Udp},
        K \in SUBSET {"tcp-portrange", "udp-portrange", "sctp-portrange"}}
    \cup {Restrict(ServiceFull(proto_tcp), K) : K \in {{}, {"name"}, {"udp-portrange"}}}

PolicyFull ==
    ("name" :> "pol") @@ ("policyid" :> 7) @@ ("action" :> s_accept) @@
    ("status" :> "enable") @@ ("srcintf" :> <<"port1">>) @@
    ("dstintf" :> <<"port2", "port3">>) @@ ("srcaddr" :> <<"web">>) @@
    ("dstaddr" :> <<"all", "db">>) @@ ("service" :> <<"HTTP">>) @@
    ("logtraffic" :> "all") @@ ("nat" :> "enable") @@ ("ippool" :> "enable") @@
    ("poolname" :> "pool1")

\* PolicyFull with the fields of `over` replaced and the keys `drop` removed
PolicyWith(over, drop) == Restrict(over @@ PolicyFull, DOMAIN PolicyFull \ drop)

PolicyRecords ==
    {PolicyWith("action" :> a, {}) :
        a \in {s_accept, act_ACCEPT, s_allow, act_Allow, s_deny, s_reject, act_Reject, act_foo}}
    \cup {PolicyWith("status" :> v, {}) : v \in {"enable", "disable", "foo"}}
    \cup {PolicyWith("logtraffic" :> v, {"nat"}) : v \in {"all", "utm", "disable"}}
    \cup {PolicyWith(("nat" :> n) @@ ("ippool" :> p) @@ ("policyid" :> 8), d) :
            n \in {"enable", "disable"}, p \in {"enable", "disable"},
            d \in {{}, {"ippool", "poolname"}}}
    \cup {PolicyWith(("nat" :> n) @@ ("policyid" :> 9), {}) : n \in {"enable", "ENABLE"}}
    \cup {PolicyWith(("srcintf" :> i) @@ ("dstaddr" :> i), {}) : i \in {<<>>, <<"port9">>}}
    \cup {PolicyWith(<<>>, d) :
            d \in {{"action"}, {"status"}, {"logtraffic"}, {"name"}, {"name", "policyid"},
                   {"srcintf", "dstintf", "srcaddr", "dstaddr", "service"},
                   DOMAIN PolicyFull}}

\* the sections of a config that is not under study
PlainFirewall ==
    ("address" :> <<MainAddrFull(MainHostSubnet)>>) @@
    ("addrgrp" :> <<GroupFull(<<"A">>), GroupFull(<<"B">>)>>) @@
    ("service" :> (("custom" :> <<>>) @@
                   ("group" :> <<GroupFull(<<"S">>), GroupFull(<<>>), GroupFull(<<"T">>)>>))) @@
    ("policy" :> <<PolicyFull>>)

\* PlainFirewall with one section replaced
WithSection(section, records) ==
    IF section \in {"custom", "group"}
    THEN ("service" :> ((section :> records) @@ PlainFirewall["service"])) @@ PlainFirewall
    ELSE (section :> records) @@ PlainFirewall

\* configs that lack sections, or the whole firewall mapping
ShapeConfigs ==
    {<<>>}
    \cup {"firewall" :> Restrict(PlainFirewall, K) :
            K \in SUBSET {"address", "addrgrp", "service", "policy"}}
    \cup {"firewall" :> (("service" :> Restrict(PlainFirewall["service"], K)) @@ PlainFirewall) :
            K \in SUBSET {"custom", "group"}}

\* fg_config is drawn with one section under study: up to n records of it
MainConfigUpTo(cfg, n) ==
    \/ \E m \in 0..n : \E r \in [1..m -> MainAddrRecords] :
            cfg = "firewall" :> WithSection("address", r)
    \/ \E m \in 0..n : \E r \in [1..m -> GroupRecords] :
            cfg = "firewall" :> WithSection("addrgrp", r)
    \/ \E m \in 0..n : \E r \in [1..m -> ServiceRecords] :
            cfg = "firewall" :> WithSection("custom", r)
    \/ \E m \in 0..n : \E r \in [1..m -> GroupRecords] :
            cfg = "firewall" :> WithSection("group", r)
    \/ \E m \in 0..n : \E r \in [1..m -> PolicyRecords] :
            cfg = "firewall" :> WithSection("policy", r)
    \/ cfg \in ShapeConfigs

MainConfig(cfg) == MainConfigUpTo(cfg, MaxRecs)

\* --- named-map form (fortigate_converter.py) ---
FcSubnets ==
    {<<>>, <<a_10_0_0_4>>, <<a_10_0_0_4, m_255_255_255_252, a_10_0_0_0>>}
    \cup {<<a_10_0_0_4, m>> : m \in Netmasks}

FcFull(type, subnet) ==
    ("uuid" :> "u") @@ ("type" :> type) @@ ("comment" :> "FUN") @@ ("subnet" :> subnet) @@
    ("start-ip" :> a_10_0_0_0) @@ ("end-ip" :> a_10_0_0_4)

FcProperties ==
    {Restrict(FcFull("ipmask", sub), {"uuid", "comment", "subnet"}) : sub \in FcSubnets}
    \cup {Restrict(FcFull("ipmask", <<a_10_0_0_0, m_255_255_0_0>>), K) :
            K \in {{"subnet"}, {"subnet", "start-ip", "end-ip"}}}
    \cup {Restrict(FcFull("iprange", <<a_10_0_0_4, m_255_255_255_0>>), {"type"} \cup K) :
            K \in SUBSET {"subnet", "start-ip", "end-ip"}}
    \cup {Restrict(FcFull("ipmask", <<a_10_0_0_4, m_255_255_255_0>>), {"type"} \cup K) :
            K \in {{}, {"subnet"}}}
    \cup {Restrict(FcFull("ipmask", <<>>), K) : K \in {{}, {"uuid"}, {"start-ip", "end-ip"}}}

FcRecords ==
    {"OBJ_A" :> p : p \in FcProperties}
    \cup {"OBJ_B" :> Restrict(FcFull("iprange", <<>>), K) : K \in {{"type"}, {"subnet"}}}

FcConfig(cfg) ==
    \/ cfg = <<>>
    \/ \E m \in 0..MaxRecs : \E r \in [1..m -> FcRecords] : cfg = "firewall_address" :> r

(***************************************************************************)
(* The state machine.                                                      *)
(***************************************************************************)
\* main.py: FortiGateToFTDConverter(fg_config), before convert_all
InitMain ==
    /\ tool = "main"
    /\ pc = "convert_address_objects"
    /\ MainConfig(fg_config)
    /\ ftd_config = main_init_ftd_config
    /\ ftd_network_objects = <<>>
    /\ warnings = 0
    /\ netmask = <<>>
    /\ cidr = 0
    /\ pending = {}

\* fortigate_converter.py: FortiGateToFTDConverter(fg_config), before convert_all
InitFc ==
    /\ tool = "fortigate_converter"
    /\ pc = "convert_all"
    /\ FcConfig(fg_config)
    /\ ftd_config = main_init_ftd_config
    /\ ftd_network_objects = <<>>
    /\ warnings = 0
    /\ netmask = <<>>
    /\ cidr = 0
    /\ pending = {}

\* a call of _netmask_to_cidr(netmask) about to be made
InitNetmask ==
    /\ tool = "netmask_to_cidr"
    /\ pc = "call"
    /\ netmask \in Netmasks \cup FourOctetNetmasks
    /\ fg_config = <<>>
    /\ ftd_config = main_init_ftd_config
    /\ ftd_network_objects = <<>>
    /\ warnings = 0
    /\ cidr = 0
    /\ pending = {}

Init == InitMain \/ InitFc \/ InitNetmask

\* main.py convert_all, line 183; the KeyError of _extract_address_value leaves
\* convert_all with self.ftd_config untouched
ConvertAll_address_objects ==
    /\ tool = "main" /\ pc = "convert_address_objects"
    /\ IF convert_address_objects_raises(fg_config)
       THEN /\ pc' = "KeyError"
            /\ UNCHANGED ftd_config
       ELSE /\ pc' = "convert_address_groups"
            /\ ftd_config' = [ftd_config EXCEPT
                                !.network_objects = convert_address_objects(fg_config)]
    /\ UNCHANGED <<tool, fg_config, ftd_network_objects, warnings, netmask, cidr, pending>>

\* line 184
ConvertAll_address_groups ==
    /\ tool = "main" /\ pc = "convert_address_groups"
    /\ pc' = "convert_service_objects"
    /\ ftd_config' = [ftd_config EXCEPT !.network_groups = convert_address_groups(fg_config)]
    /\ UNCHANGED <<tool, fg_config, ftd_network_objects, warnings, netmask, cidr, pending>>

\* line 185
ConvertAll_service_objects ==
    /\ tool = "main" /\ pc = "convert_service_objects"
    /\ pc' = "convert_service_groups"
    /\ ftd_config' = [ftd_config EXCEPT !.port_objects = convert_service_objects(fg_config)]
    /\ UNCHANGED <<tool, fg_config, ftd_network_objects, warnings, netmask, cidr, pending>>

\* line 186
ConvertAll_service_groups ==
    /\ tool = "main" /\ pc = "convert_service_groups"
    /\ pc' = "convert_firewall_policies"
    /\ ftd_config' = [ftd_config EXCEPT !.port_groups = convert_service_groups(fg_config)]
    /\ UNCHANGED <<tool, fg_config, ftd_network_objects, warnings, netmask, cidr, pending>>

\* line 187
ConvertAll_firewall_policies ==
    /\ tool = "main" /\ pc = "convert_firewall_policies"
    /\ pc' = "convert_nat_policies"
    /\ ftd_config' = [ftd_config EXCEPT
                        !.access_policies = convert_firewall_policies(fg_config)]
    /\ UNCHANGED <<tool, fg_config, ftd_network_objects, warnings, netmask, cidr, pending>>

\* lines 188-190: the last sub-translation, then return self.ftd_config
ConvertAll_nat_policies ==
    /\ tool = "main" /\ pc = "convert_nat_policies"
    /\ pc' = "done"
    /\ ftd_config' = [ftd_config EXCEPT !.nat_policies = convert_nat_policies(fg_config)]
    /\ UNCHANGED <<tool, fg_config, ftd_network_objects, warnings, netmask, cidr, pending>>

\* fortigate_converter.py convert_all
FcConvertAll ==
    /\ tool = "fortigate_converter" /\ pc = "convert_all"
    /\ pc' = "done"
    /\ ftd_network_objects' = fc_convert_address_objects(fg_config)
    /\ warnings' = warnings + fc_convert_warnings(fg_config)
    /\ UNCHANGED <<tool, fg_config, ftd_config, netmask, cidr, pending>>

\* one call of _netmask_to_cidr
NetmaskToCidr ==
    /\ tool = "netmask_to_cidr" /\ pc = "call"
    /\ pc' = "done"
    /\ cidr' = netmask_to_cidr(netmask)
    /\ warnings' = warnings + (IF netmask_to_cidr_warns(netmask) THEN 1 ELSE 0)
    /\ UNCHANGED <<tool, fg_config, ftd_config, ftd_network_objects, netmask, pending>>

Next ==
    \/ ConvertAll_address_objects
    \/ ConvertAll_address_groups
    \/ ConvertAll_service_objects
    \/ ConvertAll_service_groups
    \/ ConvertAll_firewall_policies
    \/ ConvertAll_nat_policies
    \/ FcConvertAll
    \/ NetmaskToCidr

Spec == Init /\ [][Next]_vars

(***************************************************************************)
(* main.py with the six sub-translations taken in any order: a caller      *)
(* constructs the converter and calls the six convert_* methods one at a    *)
(* time, in an order of its choosing, storing each result under its key of  *)
(* ftd_config as convert_all does.  The order of convert_all is one of the  *)
(* 720 orders.                                                              *)
(***************************************************************************)
\* the keys of ftd_config, one per sub-translation
SubTranslations ==
    {"network_objects", "network_groups", "port_objects", "port_groups",
     "access_policies", "nat_policies"}

\* what convert_all returns: the six results, computed in the order of the source
convert_all_returns(cfg) ==
    [network_objects |-> convert_address_objects(cfg),
     network_groups  |-> convert_address_groups(cfg),
     port_objects    |-> convert_service_objects(cfg),
     port_groups     |-> convert_service_groups(cfg),
     access_policies |-> convert_firewall_policies(cfg),
     nat_policies    |-> convert_nat_policies(cfg)]

InitAnyOrder ==
    /\ tool = "main_any_order"
    /\ pc = "running"
    /\ MainConfigUpTo(fg_config, MaxOrderRecs)
    /\ ftd_config = main_init_ftd_config
    /\ ftd_network_objects = <<>>
    /\ warnings = 0
    /\ netmask = <<>>
    /\ cidr = 0
    /\ pending = SubTranslations

\* the position after one more sub-translation has returned
AfterRunning(key) == IF pending \ {key} = {} THEN "done" ELSE "running"

\* convert_address_objects, whenever the caller takes it; its KeyError ends the run
AnyOrder_address_objects ==
    /\ tool = "main_any_order" /\ pc = "running"
    /\ "network_objects" \in pending
    /\ IF convert_address_objects_raises(fg_config)
       THEN /\ pc' = "KeyError"
            /\ UNCHANGED <<ftd_config, pending>>
       ELSE /\ pc' = AfterRunning("network_objects")
            /\ pending' = pending \ {"network_objects"}
            /\ ftd_config' = [ftd_config EXCEPT
                                !.network_objects = convert_address_objects(fg_config)]
    /\ UNCHANGED <<tool, fg_config, ftd_network_objects, warnings, netmask, cidr>>

AnyOrder_address_groups ==
    /\ tool = "main_any_order" /\ pc = "running"
    /\ "network_groups" \in pending
    /\ pc' = AfterRunning("network_groups")
    /\ pending' = pending \ {"network_groups"}
    /\ ftd_config' = [ftd_config EXCEPT !.network_groups = convert_address_groups(fg_config)]
    /\ UNCHANGED <<tool, fg_config, ftd_network_objects, warnings, netmask, cidr>>

AnyOrder_service_objects ==
    /\ tool = "main_any_order" /\ pc = "running"
    /\ "port_objects" \in pending
    /\ pc' = AfterRunning("port_objects")
    /\ pending' = pending \ {"port_objects"}
    /\ ftd_config' = [ftd_config EXCEPT !.port_objects = convert_service_objects(fg_config)]
    /\ UNCHANGED <<tool, fg_config, ftd_network_objects, warnings, netmask, cidr>>

AnyOrder_service_groups ==
    /\ tool = "main_any_order" /\ pc = "running"
    /\ "port_groups" \in pending
    /\ pc' = AfterRunning("port_groups")
    /\ pending' = pending \ {"port_groups"}
    /\ ftd_config' = [ftd_config EXCEPT !.port_groups = convert_service_groups(fg_config)]
    /\ UNCHANGED <<tool, fg_config, ftd_network_objects, warnings, netmask, cidr>>

AnyOrder_firewall_policies ==
    /\ tool = "main_any_order" /\ pc = "running"
    /\ "access_policies" \in pending
    /\ pc' = AfterRunning("access_policies")
    /\ pending' = pending \ {"access_policies"}
    /\ ftd_config' = [ftd_config EXCEPT
                        !.access_policies = convert_firewall_policies(fg_config)]
    /\ UNCHANGED <<tool, fg_config, ftd_network_objects, warnings, netmask, cidr>>

\* a faulty variant: the NAT step stores its result in a fresh output tree,
\* dropping what the steps before it stored
AnyOrder_nat_policies_fresh_tree ==
    /\ tool = "main_any_order" /\ pc = "running"
    /\ "nat_policies" \in pending
    /\ pc' = AfterRunning("nat_policies")
    /\ pending' = pending \ {"nat_policies"}
    /\ ftd_config' = [main_init_ftd_config EXCEPT
                        !.nat_policies = convert_nat_policies(fg_config)]
    /\ UNCHANGED <<tool, fg_config, ftd_network_objects, warnings, netmask, cidr>>

AnyOrder_nat_policies ==
    /\ tool = "main_any_order" /\ pc = "running"
    /\ "nat_policies" \in pending
    /\ pc' = AfterRunning("nat_policies")
    /\ pending' = pending \ {"nat_policies"}
    /\ ftd_config' = [ftd_config EXCEPT !.nat_policies = convert_nat_policies(fg_config)]
    /\ UNCHANGED <<tool, fg_config, ftd_network_objects, warnings, netmask, cidr>>

NextAnyOrder ==
    \/ AnyOrder_address_objects
    \/ AnyOrder_address_groups
    \/ AnyOrder_service_objects
    \/ AnyOrder_service_groups
    \/ AnyOrder_firewall_policies
    \/ AnyOrder_nat_policies

SpecAnyOrder == InitAnyOrder /\ [][NextAnyOrder]_vars


(***************************************************************************)
(* The claims.                                                             *)
(***************************************************************************)
\* the source sections main.py reads
Addresses     == Get(main_firewall(fg_config), "address", <<>>)
AddressGroups == Get(main_firewall(fg_config), "addrgrp", <<>>)
Services      == Get(main_service(fg_config), "custom", <<>>)
ServiceGroups == Get(main_service(fg_config), "group", <<>>)
Policies      == Get(main_firewall(fg_config), "policy", <<>>)

\* convert_all of main.py has ended, by return or by exception
MainEnded == tool = "main" /\ pc \in {"done", "KeyError"}

\* convert_all of main.py has returned
MainReturned == tool = "main" /\ pc = "done"

\* the number of one-bits of n >= 0
RECURSIVE OneBitsOf(_)
OneBitsOf(n) == IF n = 0 THEN 0 ELSE (n % 2) + OneBitsOf(n \div 2)

\* every octet of the dotted-decimal mask is a decimal number in 0..255
EveryOctetInRange(mask) ==
    \A i \in 1..Len(Split(mask, ".")) :
        /\ IntParses(Split(mask, ".")[i])
        /\ IntOf(Split(mask, ".")[i]) \in 0..255

\* the count of one-bits of a mask whose octets are all in 0..255
PrefixLength(mask) ==
    SumSeq([i \in 1..Len(Split(mask, ".")) |-> OneBitsOf(IntOf(Split(mask, ".")[i]))])

\* C1 (as claimed): when convert_all of main.py has ended, each of the five
\* non-NAT output sequences is as long as its source section and its i-th record
\* carries the i-th source record's name: nothing dropped, invented or reordered.
\* Violated: a record with start-ip and no end-ip ends convert_all by KeyError
\* with every output sequence still empty.
C1_EveryRecordTranslated ==
    MainEnded =>
        /\ Len(ftd_config.network_objects) = Len(Addresses)
        /\ Len(ftd_config.network_groups) = Len(AddressGroups)
        /\ Len(ftd_config.port_objects) = Len(Services)
        /\ Len(ftd_config.port_groups) = Len(ServiceGroups)
        /\ Len(ftd_config.access_policies) = Len(Policies)
        /\ \A i \in 1..Len(Addresses) :
              ftd_config.network_objects[i].name = Get(Addresses[i], "name", "")
        /\ \A i \in 1..Len(AddressGroups) :
              ftd_config.network_groups[i].name = Get(AddressGroups[i], "name", "")
        /\ \A i \in 1..Len(Services) :
              ftd_config.port_objects[i].name = Get(Services[i], "name", "")
        /\ \A i \in 1..Len(ServiceGroups) :
              ftd_config.port_groups[i].name = Get(ServiceGroups[i], "name", "")

\* the indexes of the policies whose nat field is present and equals "enable"
NatIndexes == {i \in 1..Len(Policies) :
                  "nat" \in DOMAIN Policies[i] /\ Policies[i]["nat"] = "enable"}

\* the index of the k-th such policy
KthNat(k) == CHOOSE i \in NatIndexes : Cardinality({j \in NatIndexes : j <= i}) = k

\* the policy id as the rule names spell it
PolicyIdText(policy) ==
    IF "policyid" \in DOMAIN policy THEN ToString(policy["policyid"]) ELSE ""

\* C2: when convert_all of main.py has returned, there are as many NatRules as
\* policies with nat = "enable", the k-th NatRule comes from the k-th such policy
\* (its name and translatedSource are that policy's), and every policy, with NAT
\* or without, has exactly one AccessRule.
C2_NatOnlyWhenEnabled ==
    MainReturned =>
        /\ Len(ftd_config.nat_policies) = Cardinality(NatIndexes)
        /\ \A k \in 1..Len(ftd_config.nat_policies) :
              /\ k <= Cardinality(NatIndexes)
              /\ ftd_config.nat_policies[k].name = "NAT_" \o PolicyIdText(Policies[KthNat(k)])
              /\ ftd_config.nat_policies[k].translatedSource =
                    Get(Policies[KthNat(k)], "poolname", "interface")
        /\ Len(ftd_config.access_policies) = Len(Policies)

\* C2 witness: a policy whose nat is "disable" got no NatRule and the policy
\* after it, with nat = "enable" and another policy id, got the only one
C2_Witness ==
    /\ MainReturned
    /\ Len(Policies) = 2
    /\ Get(Policies[1], "nat", "") = "disable"
    /\ Get(Policies[2], "nat", "") = "enable"
    /\ PolicyIdText(Policies[1]) # PolicyIdText(Policies[2])
    /\ Len(ftd_config.nat_policies) = 1
    /\ ftd_config.nat_policies[1].name = "NAT_" \o PolicyIdText(Policies[2])
    /\ Len(ftd_config.access_policies) = 2

\* C3 (as claimed): convert_all of main.py never raises.
\* Violated: _extract_address_value subscripts addr['end-ip'] whenever start-ip
\* is present, also when end-ip is missing.
C3_NeverRaises == tool = "main" => pc # "KeyError"

\* two characters are the same letter up to case
SameLetter(c, d) ==
    \/ c = d
    \/ \E k \in 1..Len(UpperAlpha) : {c, d} = {UpperAlpha[k], LowerAlpha[k]}

\* two strings are equal up to case
EqualIgnoringCase(a, b) ==
    /\ Len(a) = Len(b)
    /\ \A i \in 1..Len(a) : SameLetter(a[i], b[i])

\* the policy's action is "accept" or "allow" up to case
IsAllowAction(policy) ==
    /\ "action" \in DOMAIN policy
    /\ \/ EqualIgnoringCase(policy["action"], s_accept)
       \/ EqualIgnoringCase(policy["action"], s_allow)

\* C4: every emitted AccessRule has ruleAction ALLOW when its policy's action is
\* "accept" or "allow" up to case, and BLOCK otherwise (deny, reject, absent,
\* unrecognized); no other value occurs.
C4_RuleActionFailClosed ==
    (tool = "main" /\ pc \in {"convert_nat_policies", "done"}) =>
        \A i \in 1..Len(Policies) :
            ftd_config.access_policies[i].ruleAction =
                IF IsAllowAction(Policies[i]) THEN "ALLOW" ELSE "BLOCK"

\* C4 witness: an upper-case ACCEPT was allowed beside an unrecognized action
\* that was blocked
C4_Witness ==
    /\ MainReturned
    /\ Len(Policies) = 2
    /\ Get(Policies[1], "action", s_empty) = act_ACCEPT
    /\ ftd_config.access_policies[1].ruleAction = "ALLOW"
    /\ Get(Policies[2], "action", s_empty) = act_foo
    /\ ftd_config.access_policies[2].ruleAction = "BLOCK"

\* C5 (as claimed): enabled is false only for status = "disable" and true when
\* status is absent, "enable" or any other value.
C5_EnabledUnlessDisable ==
    (tool = "main" /\ pc \in {"convert_nat_policies", "done"}) =>
        \A i \in 1..Len(Policies) :
            ftd_config.access_policies[i].enabled =
                ~("status" \in DOMAIN Policies[i] /\ Policies[i]["status"] = "disable")

\* C5 (amended): enabled is true exactly when status is absent or equals
\* "enable"; it is false for "disable" and for every other value.
C5_EnabledOnlyWhenEnable ==
    (tool = "main" /\ pc \in {"convert_nat_policies", "done"}) =>
        \A i \in 1..Len(Policies) :
            ftd_config.access_policies[i].enabled =
                ("status" \notin DOMAIN Policies[i] \/ Policies[i]["status"] = "enable")

\* C5 witness: a rule emitted for a status that is neither "enable" nor
\* "disable", beside one for an absent status
C5_Witness ==
    /\ MainReturned
    /\ Len(Policies) = 2
    /\ "status" \in DOMAIN Policies[1]
    /\ Policies[1]["status"] \notin {"enable", "disable"}
    /\ ~ftd_config.access_policies[1].enabled
    /\ "status" \notin DOMAIN Policies[2]
    /\ ftd_config.access_policies[2].enabled

\* C6 (as claimed): logBegin and logEnd are both true unless logtraffic equals
\* "disable", so both true when logtraffic is absent; and logBegin = logEnd.
C6_LogUnlessDisable ==
    (tool = "main" /\ pc \in {"convert_nat_policies", "done"}) =>
        \A i \in 1..Len(Policies) :
            LET on == ~("logtraffic" \in DOMAIN Policies[i]
                        /\ Policies[i]["logtraffic"] = "disable")
            IN  /\ ftd_config.access_policies[i].logBegin = on
                /\ ftd_config.access_policies[i].logEnd = on

\* C6 (amended): logBegin and logEnd are both false when logtraffic is absent or
\* equals "disable" and both true for every other value; logBegin = logEnd.
C6_LogWhenPresentAndNotDisable ==
    (tool = "main" /\ pc \in {"convert_nat_policies", "done"}) =>
        \A i \in 1..Len(Policies) :
            LET on == "logtraffic" \in DOMAIN Policies[i]
                      /\ Policies[i]["logtraffic"] # "disable"
            IN  /\ ftd_config.access_policies[i].logBegin = on
                /\ ftd_config.access_policies[i].logEnd = on
                /\ ftd_config.access_policies[i].logBegin = ftd_config.access_policies[i].logEnd

\* C6 witness: a rule emitted without logtraffic (no logging) beside one with
\* logtraffic = "utm" (logging)
C6_Witness ==
    /\ MainReturned
    /\ Len(Policies) = 2
    /\ "logtraffic" \notin DOMAIN Policies[1]
    /\ ~ftd_config.access_policies[1].logBegin
    /\ Get(Policies[2], "logtraffic", "") = "utm"
    /\ ftd_config.access_policies[2].logEnd

\* C7 (as claimed): _netmask_to_cidr returns the count of one-bits when every
\* octet is a decimal number in 0..255, returns 32 with one warning when some
\* octet is non-numeric or outside 0..255, and always returns a value in 0..32.
\* Violated: int() accepts 256 and -1, so "256.0.0.0" returns 1 without warning.
C7_NetmaskPrefixOrFallback ==
    (tool = "netmask_to_cidr" /\ pc = "done") =>
        /\ EveryOctetInRange(netmask) => cidr = PrefixLength(netmask) /\ warnings = 0
        /\ ~EveryOctetInRange(netmask) => cidr = 32 /\ warnings = 1
        /\ cidr \in 0..32

\* C8 (as claimed): a list-of-records address whose subnet is "<ip> <netmask>"
\* yields value "<ip>/<prefix>" and subType HOST for the all-ones mask, NETWORK
\* otherwise.
\* Violated: main.py copies the subnet string and always answers NETWORK.
C8_SubnetStringToCidr ==
    (tool = "main" /\ pc \notin {"convert_address_objects", "KeyError"}) =>
        \A i \in 1..Len(Addresses) :
            "subnet" \in DOMAIN Addresses[i] =>
                LET ip   == Split(Addresses[i]["subnet"], " ")[1]
                    mask == Split(Addresses[i]["subnet"], " ")[2]
                IN  /\ ftd_config.network_objects[i].value =
                          ip \o s_slash \o StrOfNat(PrefixLength(mask))
                    /\ ftd_config.network_objects[i].subType =
                          IF mask = m_255_255_255_255 THEN "HOST" ELSE "NETWORK"


\* the source section fortigate_converter.py reads
NamedAddresses == Get(fg_config, "firewall_address", <<>>)

\* the key and the properties of a single-entry mapping
EntryName(entry) == CHOOSE k \in DOMAIN entry : DOMAIN entry = {k}
EntryProperties(entry) == entry[EntryName(entry)]

\* convert_all of fortigate_converter.py has returned
NamedReturned == tool = "fortigate_converter" /\ pc = "done"

\* the prefix the netmask conversion yields, told by arithmetic: the one-bits of
\* the octets' magnitudes, or 32 when some octet is not a number
ConvertedPrefix(mask) ==
    IF \A i \in 1..Len(Split(mask, ".")) : IntParses(Split(mask, ".")[i])
    THEN SumSeq([i \in 1..Len(Split(mask, ".")) |->
                    LET n == IntOf(Split(mask, ".")[i])
                    IN  OneBitsOf(IF n < 0 THEN 0 - n ELSE n)])
    ELSE 32

\* "{start-ip}-{end-ip}", a missing end taken as ""
RangeText(p) == Get(p, "start-ip", s_empty) \o s_dash \o Get(p, "end-ip", s_empty)

\* C9 (as claimed): a named-map record yields name = its key, description = its
\* comment or ""; RANGE with "{start-ip}-{end-ip}" when type is "iprange"; else,
\* when subnet is a two-element sequence, "ip/prefix" with HOST for the all-ones
\* mask and NETWORK otherwise; else HOST with value "".
C9_NamedMapChain ==
    NamedReturned =>
        /\ Len(ftd_network_objects) = Len(NamedAddresses)
        /\ \A i \in 1..Len(NamedAddresses) :
              LET p == EntryProperties(NamedAddresses[i])
                  o == ftd_network_objects[i]
              IN  /\ o.name = EntryName(NamedAddresses[i])
                  /\ o.description = Get(p, "comment", "")
                  /\ IF "type" \in DOMAIN p /\ p["type"] = "iprange"
                     THEN o.subType = "RANGE" /\ o.value = RangeText(p)
                     ELSE IF "subnet" \in DOMAIN p /\ Len(p["subnet"]) = 2
                     THEN /\ o.value = p["subnet"][1] \o s_slash
                                          \o StrOfNat(ConvertedPrefix(p["subnet"][2]))
                          /\ o.subType = IF p["subnet"][2] = m_255_255_255_255
                                         THEN "HOST" ELSE "NETWORK"
                     ELSE o.subType = "HOST" /\ o.value = s_empty

\* C9 (amended): as claimed for name, description and the iprange case; else,
\* when subnet is present: with two or more elements, "ip/prefix" from its first
\* two elements, HOST for the all-ones mask and NETWORK otherwise; with fewer
\* than two, NETWORK with its only element, or "" when it is empty; else (no
\* subnet) HOST with value "". subType and value come from the same case.
C9_NamedMapChainBySubnetLength ==
    NamedReturned =>
        /\ Len(ftd_network_objects) = Len(NamedAddresses)
        /\ \A i \in 1..Len(NamedAddresses) :
              LET p == EntryProperties(NamedAddresses[i])
                  o == ftd_network_objects[i]
              IN  /\ o.name = EntryName(NamedAddresses[i])
                  /\ o.description = Get(p, "comment", "")
                  /\ IF "type" \in DOMAIN p /\ p["type"] = "iprange"
                     THEN o.subType = "RANGE" /\ o.value = RangeText(p)
                     ELSE IF "subnet" \in DOMAIN p /\ Len(p["subnet"]) >= 2
                     THEN /\ o.value = p["subnet"][1] \o s_slash
                                          \o StrOfNat(ConvertedPrefix(p["subnet"][2]))
                          /\ o.subType = IF p["subnet"][2] = m_255_255_255_255
                                         THEN "HOST" ELSE "NETWORK"
                     ELSE IF "subnet" \in DOMAIN p /\ Len(p["subnet"]) = 1
                     THEN o.subType = "NETWORK" /\ o.value = p["subnet"][1]
                     ELSE IF "subnet" \in DOMAIN p
                     THEN o.subType = "NETWORK" /\ o.value = s_empty
                     ELSE o.subType = "HOST" /\ o.value = s_empty

\* C9 witness: a one-element subnet became a NETWORK holding that element,
\* beside an all-ones two-element subnet that became the HOST 10.0.0.4/32
C9_Witness ==
    /\ NamedReturned
    /\ Len(NamedAddresses) = 2
    /\ Get(EntryProperties(NamedAddresses[1]), "subnet", <<>>) = <<a_10_0_0_4>>
    /\ ftd_network_objects[1].subType = "NETWORK"
    /\ ftd_network_objects[1].value = a_10_0_0_4
    /\ Get(EntryProperties(NamedAddresses[2]), "subnet", <<>>)
          = <<a_10_0_0_4, m_255_255_255_255>>
    /\ ftd_network_objects[2].subType = "HOST"
    /\ ftd_network_objects[2].value = a_10_0_0_4 \o <<"/", "3", "2">>

\* C10 (as claimed): once convert_address_objects of main.py has run, every
\* address record without subnet has its object: RANGE with "{start-ip}-{end-ip}"
\* when both are present; else FQDN with the fqdn when fqdn is present; else
\* HOST with the ip field or "".
\* Violated: a record with start-ip and fqdn but no end-ip (or with start-ip
\* alone) raises KeyError and no object is emitted.
C10_NoSubnetChain ==
    (tool = "main" /\ pc # "convert_address_objects") =>
        /\ Len(ftd_config.network_objects) = Len(Addresses)
        /\ \A i \in 1..Len(Addresses) :
              "subnet" \notin DOMAIN Addresses[i] =>
                  LET a == Addresses[i]
                      o == ftd_config.network_objects[i]
                  IN  IF "start-ip" \in DOMAIN a /\ "end-ip" \in DOMAIN a
                      THEN o.subType = "RANGE"
                           /\ o.value = a["start-ip"] \o s_dash \o a["end-ip"]
                      ELSE IF "fqdn" \in DOMAIN a
                      THEN o.subType = "FQDN" /\ o.value = a["fqdn"]
                      ELSE o.subType = "HOST" /\ o.value = Get(a, "ip", s_empty)


\* the objects of group record g are its members, each wrapped as {name: member}
MembersWrapped(g, objects) ==
    LET member == IF "member" \in DOMAIN g THEN g["member"] ELSE <<>>
    IN  /\ Len(objects) = Len(member)
        /\ \A j \in 1..Len(member) :
              /\ DOMAIN objects[j] = {"name"}
              /\ objects[j].name = member[j]

\* C11: once the address groups and the service groups of main.py are converted,
\* every emitted group's objects sequence is as long as the source member
\* sequence and its j-th element is {name: member[j]} (order and duplicates
\* kept); a group without member has no objects.
C11_GroupMembersWrappedInOrder ==
    (tool = "main" /\ pc \in {"convert_firewall_policies", "convert_nat_policies", "done"}) =>
        /\ Len(ftd_config.network_groups) = Len(AddressGroups)
        /\ Len(ftd_config.port_groups) = Len(ServiceGroups)
        /\ \A i \in 1..Len(AddressGroups) :
              MembersWrapped(AddressGroups[i], ftd_config.network_groups[i].objects)
        /\ \A i \in 1..Len(ServiceGroups) :
              MembersWrapped(ServiceGroups[i], ftd_config.port_groups[i].objects)

\* C11 witness: a service group with members B, A, A kept all three in that
\* order, beside a group without member that got no objects
C11_Witness ==
    /\ MainReturned
    /\ Len(ServiceGroups) = 2
    /\ Get(ServiceGroups[1], "member", <<>>) = <<"B", "A", "A">>
    /\ ftd_config.port_groups[1].objects = <<[name |-> "B"], [name |-> "A"], [name |-> "A"]>>
    /\ "member" \notin DOMAIN ServiceGroups[2]
    /\ ftd_config.port_groups[2].objects = <<>>


\* the list field k of policy p, each entry wrapped as {name: entry}; xs is that
\* wrapping, in order
EntriesWrapped(p, k, xs) ==
    LET entries == IF k \in DOMAIN p THEN p[k] ELSE <<>>
    IN  /\ Len(xs) = Len(entries)
        /\ \A j \in 1..Len(entries) : xs[j] = [name |-> entries[j]]

\* the first element of the interface list k of policy p, or the empty record
\* when the field is absent or empty
FirstOrEmptyRecord(p, k) ==
    IF k \in DOMAIN p /\ p[k] # <<>> THEN Head(p[k]) ELSE EmptyDict

\* C13: when convert_all of main.py has returned, the k-th NatRule, taken with
\* the k-th policy p whose nat is "enable", has natType DYNAMIC exactly when p's
\* ippool equals "enable" (STATIC otherwise, absent included), translatedSource
\* p's poolname or "interface", sourceInterface / destinationInterface the first
\* element of srcintf / dstintf or an empty record, and originalSource /
\* originalDestination every entry of srcaddr / dstaddr wrapped in order.
C13_NatRuleFields ==
    MainReturned =>
        /\ Len(ftd_config.nat_policies) = Cardinality(NatIndexes)
        /\ \A k \in 1..Cardinality(NatIndexes) :
              LET p == Policies[KthNat(k)]
                  r == ftd_config.nat_policies[k]
              IN  /\ r.natType = IF "ippool" \in DOMAIN p /\ p["ippool"] = "enable"
                                 THEN "DYNAMIC" ELSE "STATIC"
                  /\ r.translatedSource =
                        IF "poolname" \in DOMAIN p THEN p["poolname"] ELSE "interface"
                  /\ r.sourceInterface = FirstOrEmptyRecord(p, "srcintf")
                  /\ r.destinationInterface = FirstOrEmptyRecord(p, "dstintf")
                  /\ EntriesWrapped(p, "srcaddr", r.originalSource)
                  /\ EntriesWrapped(p, "dstaddr", r.originalDestination)

\* C13 witness: a DYNAMIC rule from a policy with an empty srcintf and two
\* dstintf entries, followed by a STATIC rule from a policy without ippool and
\* poolname
C13_Witness ==
    /\ MainReturned
    /\ Len(Policies) = 2
    /\ Len(ftd_config.nat_policies) = 2
    /\ Get(Policies[1], "srcintf", <<"none">>) = <<>>
    /\ Get(Policies[1], "dstintf", <<>>) = <<"port2", "port3">>
    /\ ftd_config.nat_policies[1].natType = "DYNAMIC"
    /\ ftd_config.nat_policies[1].sourceInterface = EmptyDict
    /\ ftd_config.nat_policies[1].destinationInterface = "port2"
    /\ ftd_config.nat_policies[1].translatedSource = "pool1"
    /\ "ippool" \notin DOMAIN Policies[2] /\ "poolname" \notin DOMAIN Policies[2]
    /\ ftd_config.nat_policies[2].natType = "STATIC"
    /\ ftd_config.nat_policies[2].translatedSource = "interface"
    /\ ftd_config.nat_policies[2].originalDestination = <<[name |-> "all"], [name |-> "db"]>>

\* the any-order run has returned: all six sub-translations have been taken
AnyOrderReturned == tool = "main_any_order" /\ pc = "done"

\* at every moment each output sequence is either still empty, its sub-translation
\* pending, or what that sub-translation makes of the source config alone; and a
\* run that returns holds exactly what convert_all returns
OutputsDependOnSourceOnly ==
    tool = "main_any_order" =>
        /\ \A key \in SubTranslations :
              key \in pending => ftd_config[key] = <<>>
        /\ ("network_groups" \notin pending =>
               ftd_config.network_groups = convert_address_groups(fg_config))
        /\ ("port_objects" \notin pending =>
               ftd_config.port_objects = convert_service_objects(fg_config))
        /\ ("port_groups" \notin pending =>
               ftd_config.port_groups = convert_service_groups(fg_config))
        /\ ("access_policies" \notin pending =>
               ftd_config.access_policies = convert_firewall_policies(fg_config))
        /\ ("nat_policies" \notin pending =>
               ftd_config.nat_policies = convert_nat_policies(fg_config))
        /\ ("network_objects" \notin pending =>
               /\ ~convert_address_objects_raises(fg_config)
               /\ ftd_config.network_objects = convert_address_objects(fg_config))
        /\ (pc = "done" =>
               /\ pending = {}
               /\ ftd_config = convert_all_returns(fg_config))
        /\ (pc = "KeyError" => convert_address_objects_raises(fg_config))

\* a step leaves the source config as it was and writes at most the output
\* sequence of the one sub-translation it takes off the pending set
StepWritesOwnOutputOnly ==
    /\ fg_config' = fg_config
    /\ pending' \subseteq pending
    /\ \A key \in SubTranslations :
          ftd_config'[key] # ftd_config[key] => key \in pending \ pending'

\* C12: the six sub-translations are independent: whatever the order in which
\* they are taken, each writes only its own output sequence, a value that depends
\* on the source config alone, so every order that returns holds the TargetConfig
\* convert_all returns; and no step changes the source config.  (A source config
\* on which convert_address_objects raises raises in every order, and no order
\* returns.)
C12_OrderIndependent ==
    /\ []OutputsDependOnSourceOnly
    /\ [][StepWritesOwnOutputOnly]_vars

\* the NAT rules, last in the order of convert_all, are stored while the address
\* objects, first in that order, have yet to be converted, and the run returns
\* from there
C12_Witness ==
    /\ tool = "main_any_order" /\ pc = "running"
    /\ pending = {"network_objects"}
    /\ Len(ftd_config.nat_policies) = 1
    /\ Len(Addresses) = 0
    /\ ftd_config.access_policies = convert_firewall_policies(fg_config)

====
